---- MODULE Spec2Model ----
(***************************************************************************)
(* Baixador de Videos Pessoal: the Tk presentation thread (app_gui.py),    *)
(* the worker threads it starts, and the download pipeline                 *)
(* VideoDownloader.iniciar_download (downloader.py).                       *)
(*                                                                         *)
(* Three specifications are given.                                         *)
(*   Spec          the application as wired in app_gui.py: the thread is   *)
(*                 started with args=(url, caminho_final,                  *)
(*                 formato_escolhido) on a target that declares            *)
(*                 (url, caminho_final).                                   *)
(*   SpecDownload  the same presentation thread, with the thread target    *)
(*                 entered with the two arguments its signature declares,  *)
(*                 so that the pipeline of downloader.py runs.             *)
(* A third one, SpecFunctions, applies the two pure computations of the    *)
(* program, the format resolution of _iniciar_download and                 *)
(* _on_pytube_progress, to inputs drawn from bounded sets.                 *)
(***************************************************************************)
EXTENDS Integers, Sequences, FiniteSets, TLC

\* ---------------------------------------------------------------- bounds
\* number of presses of the "Baixar" button in a run
MaxClicks == 2
\* stream.filesize, counted in chunks delivered by the engine
FileSize == 2
\* callbacks scheduled and not yet run beyond which a worker waits
MaxQueue == 2
\* lines of the status widget and message boxes kept: the most recent ones
KeptLines == 1
\* largest stream.filesize of the download taken on its own
MaxTotalSize == 12

\* ------------------------------------------------------------- constants
TEMP_VIDEO_FILE == "temp_video.mp4"
TEMP_AUDIO_FILE == "temp_audio.mp4"

Jobs == 1..MaxClicks

\* what the user can have typed in the URL entry
URLs == {"", "https://youtu.be/v"}
\* the value of var_formato
Formatos == {"mp4", "mp3"}
\* the file name the user types in the save dialog ("" = dialog cancelled)
DialogNames == {"", "/tmp/out"}
\* strings a caller can hand to the format resolution of lines 161-170: the
\* two values of the radio buttons and one that is neither
FormatValues == Formatos \cup {"webm"}
\* str(e) of the exceptions the engine raises
EngineErrors == {"HTTP Error 403"}
\* e.stderr of a CalledProcessError
FFmpegStderr == {""}

\* ----------------------------------------------------------------- state
VARIABLES
    var_formato,   \* tk.StringVar behind the two radio buttons
    ui,            \* state option of the four controls
    progress_bar,  \* value of the ttk.Progressbar
    text_status,   \* the last KeptLines lines of the status Text widget
    dialogs,       \* the last KeptLines message boxes shown
    afterQueue,    \* callbacks scheduled with master.after(0, ...)
    clicks,        \* presses of the button so far
    ignored,       \* presses made while the button was disabled
    njobs,         \* presses that reached the thread dispatch (line 183)
    job,           \* job[j]: the arguments of the j-th dispatch
    pc,            \* pc[j]: position of the worker of job j
    exc,           \* exc[j]: str(e) of the exception being handled
    remaining,     \* remaining[j]: bytes_remaining of the running download
    sent,          \* sent[j]: what worker j has invoked on its callbacks
    delivered,     \* delivered[j]: what has been applied for job j
                   \* (job, sent and delivered are kept while job j is in
                   \* flight: its worker runs or a callback of it is queued)
    files,         \* which job wrote each temporary file (0 = absent)
    actor,         \* the thread that took the last step
    press,         \* what _iniciar_download read in the last step, if that
                   \* step was a call of it: the URL entry and the file
                   \* name typed in the save dialog
    unit           \* one format resolution and one stream download taken
                   \* on their own (SpecFunctions)

vars == <<var_formato, ui, progress_bar, text_status, dialogs, afterQueue,
          clicks, ignored, njobs, job, pc, exc, remaining, sent, delivered, files,
          actor, press, unit>>

\* ------------------------------------------------------------- messages
\* an f-string: the literal text and the interpolated value
Msg(text, detail) == [text |-> text, detail |-> detail, num |-> 0]
\* an integer argument (progress value, or ativo as 1/0)
Num(v) == [text |-> "", detail |-> "", num |-> v]

NoMsg == Msg("", "")

\* one master.after(0, fn, arg) entry; job, cb and n say which invocation
\* of which lifecycle callback scheduled it
Item(fn, arg, j, cb, n) == [fn |-> fn, arg |-> arg, job |-> j, cb |-> cb, n |-> n]

\* Python's str.upper on the two format names
Upper(f) == IF f = "mp4" THEN "MP4" ELSE "MP3"

\* --------------------------------------------------- AppGUI: the widgets
\* the state option the widgets are created with
_criar_widgets ==
    [botao_baixar |-> "normal", entry_url |-> "normal",
     radio_mp4 |-> "normal", radio_mp3 |-> "normal"]

\* _set_ui_state that leaves the controls enabled whatever ativo is
_set_ui_state_sempre_ativo(ativo) ==
    [botao_baixar |-> "normal", entry_url |-> "normal",
     radio_mp4 |-> "normal", radio_mp3 |-> "normal"]

_set_ui_state(ativo) ==
    LET estado_botao == IF ativo THEN "normal" ELSE "disabled"
        estado_entry == IF ativo THEN "normal" ELSE "readonly"
    IN  [botao_baixar |-> estado_botao, entry_url |-> estado_entry,
         radio_mp4 |-> estado_botao, radio_mp3 |-> estado_botao]

\* the most recent KeptLines entries of a growing list
Kept(list) ==
    IF Len(list) > KeptLines
      THEN SubSeq(list, Len(list) - KeptLines + 1, Len(list)) ELSE list

_log_status(log, mensagem) == Kept(Append(log, mensagem))

showwarning(dlg, mensagem) ==
    Kept(Append(dlg, [kind |-> "showwarning", msg |-> mensagem]))

showerror(dlg, mensagem) ==
    Kept(Append(dlg, [kind |-> "showerror", msg |-> mensagem]))

\* ------------------------------------------ AppGUI: the dispatch boundary
_safe_update_status(q, mensagem, j, cb, n) ==
    Append(q, Item("_log_status", mensagem, j, cb, n))

_safe_update_progress(q, valor, j, cb, n) ==
    Append(q, Item("progress_bar.config", Num(valor), j, cb, n))

\* _safe_notify_error that forgets to re-enable the controls
_safe_notify_error_sem_ativar(q, erro_msg, j, n) ==
    q \o << Item("showerror", erro_msg, j, "error", n),
            Item("_safe_update_progress", Num(0), j, "error", n) >>

_safe_notify_error(q, erro_msg, j, n) ==
    q \o << Item("showerror", erro_msg, j, "error", n),
            Item("_set_ui_state", Num(1), j, "error", n),
            Item("_safe_update_progress", Num(0), j, "error", n) >>

_safe_notify_complete(q, msg_final, j, n) ==
    q \o << Item("_log_status", msg_final, j, "complete", n),
            Item("_set_ui_state", Num(1), j, "complete", n) >>
\* ------------------------------------------------------- initial state
NoJob == [url |-> "", caminho_final |-> "", formato |-> ""]
NothingSent == [n |-> 0, error |-> 0, complete |-> 0, terminal |-> 0]
NothingDelivered ==
    [n |-> 0, progress |-> -1, error |-> 0, complete |-> 0, idle |-> 0,
     reset |-> 0]
\* the last step was not a call of _iniciar_download
NoPress == [made |-> FALSE, url |-> "", name |-> ""]
\* _iniciar_download was called and read url and, if it opened the save
\* dialog, name
Pressed(url, name) == [made |-> TRUE, url |-> url, name |-> name]
\* nothing is resolved and no stream is being downloaded on its own
NoUnit ==
    [formato |-> "", extensao_padrao |-> "", tipos_arquivo |-> << >>,
     total_size |-> 0, bytes_remaining |-> 0, progress |-> -1]

\* the state after AppGUI.__init__
InitApp ==
    /\ var_formato = "mp4"
    /\ ui = _criar_widgets
    /\ progress_bar = 0
    /\ text_status = << Msg("Pronto", "") >>
    /\ dialogs = << >>
    /\ afterQueue = << >>
    /\ clicks = 0
    /\ ignored = 0
    /\ njobs = 0
    /\ job = [j \in Jobs |-> NoJob]
    /\ pc = [j \in Jobs |-> "none"]
    /\ exc = [j \in Jobs |-> ""]
    /\ remaining = [j \in Jobs |-> 0]
    /\ sent = [j \in Jobs |-> NothingSent]
    /\ delivered = [j \in Jobs |-> NothingDelivered]
    /\ files = [video |-> 0, audio |-> 0]
    /\ actor = "main"
    /\ press = NoPress

Init ==
    /\ InitApp
    /\ unit = NoUnit

\* the positions at which a worker thread has ended: the target returned,
\* or an exception left it; "nothread" is a dispatch whose thread never ran
Ended(p) == p \in {"done", "TypeError", "FileNotFoundError", "nothread"}

Queued(j, q) == \E i \in 1..Len(q) : q[i].job = j

\* job j is in flight when its worker runs or a callback of it is queued
InFlight(j, pcs, q) == pcs[j] # "none" /\ (~Ended(pcs[j]) \/ Queued(j, q))

\* the bookkeeping f of the jobs in flight after a step
Keep(f, nothing) ==
    [k \in Jobs |-> IF InFlight(k, pc', afterQueue') THEN f[k] ELSE nothing]

\* --------------------------------------- presentation thread: the user
\* one of the two radio buttons is selected
SelectFormato(f) ==
    /\ f # var_formato
    /\ (IF f = "mp4" THEN ui.radio_mp4 ELSE ui.radio_mp3) = "normal"
    /\ var_formato' = f
    /\ actor' = "main"
    /\ press' = NoPress
    /\ UNCHANGED unit
    /\ UNCHANGED <<ui, progress_bar, text_status, dialogs, afterQueue,
                   clicks, ignored, njobs, job, pc, exc, remaining, sent, delivered,
                   files>>

\* a press of "Baixar" while the button is disabled: Tk does not call
\* the command
ClickDisabled ==
    /\ clicks < MaxClicks
    /\ ui.botao_baixar = "disabled"
    /\ clicks' = clicks + 1
    /\ ignored' = ignored + 1
    /\ actor' = "main"
    /\ press' = NoPress
    /\ UNCHANGED unit
    /\ UNCHANGED <<var_formato, ui, progress_bar, text_status, dialogs,
                   afterQueue, njobs, job, pc, exc, remaining, sent,
                   delivered, files>>

\* a test of line 156 that lets every URL through
not_url_nunca(url) == FALSE

\* "not url" of line 156: Python's truth value of a str
not_url(url) == url = ""

\* _iniciar_download, lines 155-158: the URL entry is empty
IniciarDownload_URLVazia ==
    /\ clicks < MaxClicks
    /\ ui.botao_baixar = "normal"
    /\ \E url \in URLs :
          /\ not_url(url)
          /\ dialogs' = showwarning(dialogs,
                 Msg("Por favor, cole uma URL do YouTube.", ""))
          /\ press' = Pressed(url, "")
    /\ clicks' = clicks + 1
    /\ actor' = "main"
    /\ UNCHANGED unit
    /\ UNCHANGED <<var_formato, ui, progress_bar, text_status, afterQueue,
                   ignored, njobs, job, pc, exc, remaining, sent, delivered, files>>

\* lines 165-170 with the test made on the other value
extensao_padrao_teste_mp3(formato_escolhido) ==
    IF formato_escolhido = "mp3" THEN ".mp3" ELSE ".mp4"

\* extensao_padrao of lines 165-170
extensao_padrao(formato_escolhido) ==
    IF formato_escolhido = "mp4" THEN ".mp4" ELSE ".mp3"

\* tipos_arquivo of lines 165-170
tipos_arquivo(formato_escolhido) ==
    IF formato_escolhido = "mp4"
      THEN << <<"Arquivos MP4", "*.mp4">>, <<"Todos os arquivos", "*.*">> >>
      ELSE << <<"Arquivos MP3", "*.mp3">>, <<"Todos os arquivos", "*.*">> >>

\* a save dialog that returns the default extension when it is cancelled
asksaveasfilename_sem_cancelar(name, defaultextension) ==
    name \o defaultextension

\* filedialog.asksaveasfilename: "" when cancelled, otherwise the typed
\* name with defaultextension appended
asksaveasfilename(name, defaultextension) ==
    IF name = "" THEN "" ELSE name \o defaultextension

\* _iniciar_download, lines 155-180: the save dialog is cancelled
IniciarDownload_Cancelado ==
    /\ clicks < MaxClicks
    /\ ui.botao_baixar = "normal"
    /\ \E url \in URLs, name \in DialogNames :
          LET caminho_final ==
                  asksaveasfilename(name, extensao_padrao(var_formato))
          IN  /\ ~not_url(url)
              /\ caminho_final = ""
              /\ text_status' = _log_status(text_status,
                     Msg("Download cancelado pelo usuario.", ""))
              /\ press' = Pressed(url, name)
    /\ clicks' = clicks + 1
    /\ actor' = "main"
    /\ UNCHANGED unit
    /\ UNCHANGED <<var_formato, ui, progress_bar, dialogs, afterQueue,
                   ignored, njobs, job, pc, exc, remaining, sent, delivered, files>>

\* _iniciar_download, lines 155-197: the thread dispatch.  threadStarts is
\* FALSE when Thread.start() raises (RuntimeError: can't start new thread)
IniciarDownload_Dispatch(threadStarts) ==
    /\ clicks < MaxClicks
    /\ ui.botao_baixar = "normal"
    /\ \E url \in URLs, name \in DialogNames :
          LET formato_escolhido == var_formato
              caminho_final ==
                  asksaveasfilename(name, extensao_padrao(formato_escolhido))
              j == njobs + 1
              q1 == _safe_update_progress(afterQueue, 0, j, "start", 0)
          IN  /\ ~not_url(url)
              /\ caminho_final # ""
              /\ press' = Pressed(url, name)
              /\ njobs' = j
              /\ job' = [job EXCEPT ![j] =
                     [url |-> url, caminho_final |-> caminho_final,
                      formato |-> formato_escolhido]]
              /\ ui' = _set_ui_state(FALSE)
              /\ text_status' = _log_status(text_status,
                     Msg("Iniciando download (" \o Upper(formato_escolhido)
                         \o ") para: ", url))
              /\ IF threadStarts
                    THEN /\ pc' = [pc EXCEPT ![j] = "start"]
                         /\ afterQueue' = q1
                    ELSE /\ pc' = [pc EXCEPT ![j] = "nothread"]
                         /\ afterQueue' = _safe_notify_error(q1,
                                Msg("Erro ao iniciar a thread: ",
                                    "can't start new thread"), j, 0)
    /\ clicks' = clicks + 1
    /\ actor' = "main"
    /\ UNCHANGED <<var_formato, progress_bar, dialogs, ignored, exc,
                   remaining, sent, delivered, files, unit>>

\* ---------------------------- presentation thread: the Tk event loop
\* delivered[j] after the callback it is run
Applied(d, it) ==
    [n |-> it.n,
     progress |-> IF it.fn = "progress_bar.config" /\ it.cb = "progress"
                    THEN it.arg.num ELSE d.progress,
     error |-> IF it.fn = "showerror" THEN d.error + 1 ELSE d.error,
     complete |-> IF it.fn = "_log_status" /\ it.cb = "complete"
                    THEN d.complete + 1 ELSE d.complete,
     idle |-> IF it.fn = "_set_ui_state" /\ it.arg.num = 1
                THEN d.idle + 1 ELSE d.idle,
     reset |-> IF it.fn = "progress_bar.config" /\ it.cb = "error"
                 THEN d.reset + 1 ELSE d.reset]

\* an event loop that runs the callback scheduled last
NextCallback_ultimo(q) == Len(q)

\* the callback the event loop runs next
NextCallback(q) == 1

\* the event loop runs one scheduled callback
Deliver ==
    /\ afterQueue # << >>
    /\ LET i == NextCallback(afterQueue)
           it == afterQueue[i]
           rest == SubSeq(afterQueue, 1, i - 1)
                   \o SubSeq(afterQueue, i + 1, Len(afterQueue))
       IN  /\ text_status' =
                  IF it.fn = "_log_status"
                    THEN _log_status(text_status, it.arg) ELSE text_status
           /\ progress_bar' =
                  IF it.fn = "progress_bar.config"
                    THEN it.arg.num ELSE progress_bar
           /\ dialogs' =
                  IF it.fn = "showerror"
                    THEN showerror(dialogs, it.arg) ELSE dialogs
           /\ ui' =
                  IF it.fn = "_set_ui_state"
                    THEN _set_ui_state(it.arg.num = 1) ELSE ui
           /\ afterQueue' =
                  IF it.fn = "_safe_update_progress"
                    THEN _safe_update_progress(rest, it.arg.num,
                                               it.job, it.cb, it.n)
                    ELSE rest
           /\ UNCHANGED <<var_formato, clicks, ignored, njobs, pc, exc,
                          remaining, files>>
           /\ delivered' = Keep([delivered EXCEPT ![it.job] =
                                    Applied(delivered[it.job], it)],
                                NothingDelivered)
           /\ sent' = Keep(sent, NothingSent)
           /\ job' = Keep(job, NoJob)
    /\ actor' = "main"
    /\ press' = NoPress
    /\ UNCHANGED unit

\* ------------------------------------------------- the worker threads
\* what a callback invoked by a worker can reach: the after queue and,
\* through the widgets, the presentation state
World ==
    [q |-> afterQueue, log |-> text_status, bar |-> progress_bar,
     ui |-> ui, dlg |-> dialogs]

\* AppGUI.__init__, lines 46-51 and VideoDownloader.__init__, lines 61-64:
\* the four callbacks of the downloader are the _safe_ methods of the GUI
\* a status callback bound to _log_status itself: the worker writes the
\* Text widget
update_status_direto(w, mensagem, j, n) ==
    [w EXCEPT !.log = _log_status(w.log, mensagem)]

update_status(w, mensagem, j, n) ==
    [w EXCEPT !.q = _safe_update_status(w.q, mensagem, j, "status", n)]

update_progress(w, valor, j, n) ==
    [w EXCEPT !.q = _safe_update_progress(w.q, valor, j, "progress", n)]

notify_error(w, erro_msg, j, n) ==
    [w EXCEPT !.q = _safe_notify_error(w.q, erro_msg, j, n)]

notify_complete(w, msg_final, j, n) ==
    [w EXCEPT !.q = _safe_notify_complete(w.q, msg_final, j, n)]

\* a step of worker j that leaves the world as w, has invoked the
\* callbacks counted in s, and continues at next
WorkerStep(j, w, s, next) ==
    /\ afterQueue' = w.q
    /\ text_status' = w.log
    /\ progress_bar' = w.bar
    /\ ui' = w.ui
    /\ dialogs' = w.dlg
    /\ pc' = [pc EXCEPT ![j] = next]
    /\ sent' = Keep([sent EXCEPT ![j] = s], NothingSent)
    /\ delivered' = Keep(delivered, NothingDelivered)
    /\ job' = Keep(job, NoJob)
    /\ actor' = "worker"
    /\ press' = NoPress
    /\ UNCHANGED <<var_formato, clicks, ignored, njobs, unit>>

\* the event loop has room for another callback of a worker
CanPost == Len(afterQueue) < MaxQueue

\* sent[j] after worker j invokes update_status or update_progress
Invoked(j) == [sent[j] EXCEPT !.n = @ + 1]

\* a step of worker j that invokes no callback
Local(j, next) == WorkerStep(j, World, sent[j], next)
\* args of threading.Thread(...) in app_gui.py, line 191
ThreadArgs(jb) == << jb.url, jb.caminho_final, jb.formato >>
\* the arguments that def iniciar_download(self, url, caminho_final) takes
SignatureArgs(jb) == << jb.url, jb.caminho_final >>
\* the parameters of iniciar_download after self
iniciar_download_params == << "url", "caminho_final" >>

\* Python binds positional arguments one to one; any other count is a
\* TypeError raised by the call itself
Binds(args, params) == Len(args) = Len(params)

\* Thread.run: self._target(*self._args).  A TypeError of the call is
\* raised in the worker thread, outside iniciar_download's try, and ends
\* the thread
Thread_run(j, args) ==
    /\ pc[j] = "start"
    /\ Local(j, IF Binds(args, iniciar_download_params)
                  THEN "l109" ELSE "TypeError")
    /\ UNCHANGED <<exc, remaining, files>>

\* worker j at here invokes update_status(mensagem) and goes to next
Status(j, here, mensagem, next) ==
    /\ pc[j] = here
    /\ CanPost
    /\ WorkerStep(j, update_status(World, mensagem, j, sent[j].n + 1),
                  Invoked(j), next)

\* worker j at here invokes update_progress(valor) and goes to next
Progress(j, here, valor, next) ==
    /\ pc[j] = here
    /\ CanPost
    /\ WorkerStep(j, update_progress(World, valor, j, sent[j].n + 1),
                  Invoked(j), next)

\* the engine raises: control goes to "except Exception as e", line 175
Raise(j, e) ==
    /\ Local(j, "l177")
    /\ exc' = [exc EXCEPT ![j] = e]
    /\ remaining' = [remaining EXCEPT ![j] = 0]
    /\ UNCHANGED files

\* line 109
L109(j) ==
    /\ Status(j, "l109",
              Msg("Validando URL e conectando ao YouTube...", ""), "l110")
    /\ UNCHANGED <<exc, remaining, files>>

\* line 110
L110(j) ==
    /\ Progress(j, "l110", 0, "l112")
    /\ UNCHANGED <<exc, remaining, files>>

\* line 112: YouTube(url, ...) returns or raises
L112(j) ==
    /\ pc[j] = "l112"
    /\ \/ /\ Local(j, "l115")
          /\ UNCHANGED <<exc, remaining, files>>
       \/ \E e \in EngineErrors : Raise(j, e)

\* line 115: self.yt.title is fetched (or raises) and reported
L115(j) ==
    \/ /\ Status(j, "l115", Msg("Buscando streams para: ", "title"), "l118")
       /\ UNCHANGED <<exc, remaining, files>>
    \/ /\ pc[j] = "l115"
       /\ \E e \in EngineErrors : Raise(j, e)

\* lines 118-128: both adaptive streams are found, or ValueError
L118(j) ==
    /\ pc[j] = "l118"
    /\ \/ /\ Local(j, "l131")
          /\ UNCHANGED <<exc, remaining, files>>
       \/ Raise(j, "Nao foi possivel encontrar streams adaptativos de audio/video.")

\* line 131
L131(j) ==
    /\ Status(j, "l131", Msg("Baixando video (", "1080p"), "l132")
    /\ remaining' = [remaining EXCEPT ![j] = FileSize]
    /\ UNCHANGED <<exc, files>>

\* _on_pytube_progress computes int((bytes_downloaded / total_size) * 100
\* * 0.9) in IEEE-754 doubles.  The exact value is 90 * downloaded / total;
\* for the pairs <<total_size, bytes_remaining>> below (all those with
\* total_size <= 16) the double product falls just under an integer and
\* int() truncates to one less
DoubleFallsShort ==
    { <<3, 1>>, <<3, 2>>, <<6, 2>>, <<6, 4>>, <<6, 5>>, <<9, 3>>, <<9, 6>>,
      <<12, 4>>, <<12, 8>>, <<12, 10>>, <<15, 5>>, <<15, 10>> }

\* the value _on_pytube_progress passes to update_progress, lines 76-85
_on_pytube_progress(total_size, bytes_remaining) ==
    LET bytes_downloaded == total_size - bytes_remaining
        exact == (90 * bytes_downloaded) \div total_size
    IN  IF <<total_size, bytes_remaining>> \in DoubleFallsShort
          THEN exact - 1 ELSE exact

\* stream.download(filename=...): the engine writes one chunk to the
\* temporary file and calls the progress callback, or raises
Download(j, here, file, next) ==
    \/ /\ remaining[j] > 0
       /\ Progress(j, here,
                   _on_pytube_progress(FileSize, remaining[j] - 1),
                   IF remaining[j] = 1 THEN next ELSE here)
       /\ remaining' = [remaining EXCEPT ![j] = @ - 1]
       /\ files' = [files EXCEPT ![file] = j]
       /\ UNCHANGED exc
    \/ /\ pc[j] = here
       /\ \E e \in EngineErrors : Raise(j, e)

\* line 132
L132(j) == Download(j, "l132", "video", "l134")

\* line 134
L134(j) ==
    /\ Status(j, "l134", Msg("Baixando audio (", "128kbps"), "l136")
    /\ UNCHANGED <<exc, remaining, files>>

\* line 136
L136(j) ==
    /\ Progress(j, "l136", 0, "l137")
    /\ remaining' = [remaining EXCEPT ![j] = FileSize]
    /\ UNCHANGED <<exc, files>>

\* line 137
L137(j) == Download(j, "l137", "audio", "l140")

\* line 140
L140(j) ==
    /\ Status(j, "l140", Msg("Juntando audio e video com FFmpeg...", ""),
              "l141")
    /\ UNCHANGED <<exc, remaining, files>>

\* line 141 without the call of update_progress
L141_sem_progresso(j) ==
    /\ pc[j] = "l141"
    /\ Local(j, "l160")
    /\ UNCHANGED <<exc, remaining, files>>

\* line 141
L141(j) ==
    /\ Progress(j, "l141", 90, "l160")
    /\ UNCHANGED <<exc, remaining, files>>

\* lines 147-164: subprocess.run(cmd, check=True).  FFmpeg succeeds only
\* when both inputs exist; it can exit non-zero (CalledProcessError, whose
\* stderr is kept) and the call can raise another exception (no ffmpeg)
L160(j) ==
    /\ pc[j] = "l160"
    /\ \/ /\ files.video # 0
          /\ files.audio # 0
          /\ Local(j, "l166")
          /\ UNCHANGED <<exc, remaining, files>>
       \/ \E stderr \in FFmpegStderr :
             /\ Local(j, "l172")
             /\ exc' = [exc EXCEPT ![j] = stderr]
             /\ UNCHANGED <<remaining, files>>
       \/ Raise(j, "[Errno 2] No such file or directory: 'ffmpeg'")

\* line 166
L166(j) ==
    /\ Progress(j, "l166", 100, "l167")
    /\ UNCHANGED <<exc, remaining, files>>

\* line 167
L167(j) ==
    /\ Status(j, "l167", Msg("Merge concluido.", ""), "l168")
    /\ UNCHANGED <<exc, remaining, files>>

\* the completion message built from the temporary file name
MsgComplete_temporario(caminho_final) ==
    Msg("Download Concluido!\nSalvo em: ", TEMP_VIDEO_FILE)

\* the message of line 168
MsgComplete(caminho_final) ==
    Msg("Download Concluido!\nSalvo em: ", caminho_final)

\* line 168 followed, inside the try block, by a statement that raises:
\* control goes to "except Exception as e"
L168_depois_raise(j) ==
    /\ pc[j] = "l168"
    /\ CanPost
    /\ WorkerStep(j, notify_complete(World,
                        MsgComplete(job[j].caminho_final), j, sent[j].n + 1),
                  [n |-> sent[j].n + 1, error |-> sent[j].error,
                   complete |-> sent[j].complete + 1,
                   terminal |-> sent[j].n + 1],
                  "l177")
    /\ UNCHANGED <<exc, remaining, files>>

\* line 168; the try block ends and control goes to finally
L168(j) ==
    /\ pc[j] = "l168"
    /\ CanPost
    /\ WorkerStep(j, notify_complete(World,
                        MsgComplete(job[j].caminho_final), j, sent[j].n + 1),
                  [n |-> sent[j].n + 1, error |-> sent[j].error,
                   complete |-> sent[j].complete + 1,
                   terminal |-> sent[j].n + 1],
                  "l91")
    /\ UNCHANGED <<exc, remaining, files>>

\* line 172
L172(j) ==
    /\ Status(j, "l172", Msg("Erro no FFmpeg. Verifique a instalacao.", ""),
              "l173")
    /\ UNCHANGED <<exc, remaining, files>>

\* the messages of lines 173 and 178
MsgErroFFmpeg(stderr) == Msg("Erro no FFmpeg:\n", stderr)
MsgFalha(e) == Msg("Falha no Download:\n", e)

\* worker j at here invokes notify_error(erro_msg); the except block ends
\* (e goes out of scope) and control goes to finally
NotifyError(j, here, erro_msg) ==
    /\ pc[j] = here
    /\ CanPost
    /\ WorkerStep(j, notify_error(World, erro_msg, j, sent[j].n + 1),
                  [n |-> sent[j].n + 1, error |-> sent[j].error + 1,
                   complete |-> sent[j].complete,
                   terminal |-> sent[j].n + 1],
                  "l91")
    /\ exc' = [exc EXCEPT ![j] = ""]
    /\ UNCHANGED <<remaining, files>>

\* line 173
L173(j) == NotifyError(j, "l173", MsgErroFFmpeg(exc[j]))

\* line 177
L177(j) ==
    /\ Status(j, "l177", Msg("Erro: ", exc[j]), "l178")
    /\ UNCHANGED <<exc, remaining, files>>

\* line 178
L178(j) == NotifyError(j, "l178", MsgFalha(exc[j]))

\* finally, line 182: _limpar_temporarios, line 91
L91(j) ==
    /\ Status(j, "l91", Msg("Limpando arquivos temporarios...", ""), "l92")
    /\ UNCHANGED <<exc, remaining, files>>

\* lines 92 and 94: os.path.exists
Exists(j, here, file, yes, no) ==
    /\ pc[j] = here
    /\ Local(j, IF files[file] # 0 THEN yes ELSE no)
    /\ UNCHANGED <<exc, remaining, files>>

\* lines 93 and 95: os.remove deletes the file; when the file is gone it
\* raises FileNotFoundError, which leaves finally and the thread function
Remove(j, here, file, next) ==
    /\ pc[j] = here
    /\ Local(j, IF files[file] # 0 THEN next ELSE "FileNotFoundError")
    /\ files' = [files EXCEPT ![file] = 0]
    /\ UNCHANGED <<exc, remaining>>

L92(j) == Exists(j, "l92", "video", "l93", "l94")
L93(j) == Remove(j, "l93", "video", "l94")
L94(j) == Exists(j, "l94", "audio", "l95", "done")
L95(j) == Remove(j, "l95", "audio", "done")

\* ------------------------- the two pure computations, on their own
\* the state of the application
app == <<var_formato, ui, progress_bar, text_status, dialogs, afterQueue,
         clicks, ignored, njobs, job, pc, exc, remaining, sent, delivered,
         files, actor, press>>

\* a format value to resolve and a stream of total_size bytes to download
InitFunctions ==
    /\ InitApp
    /\ \E f \in FormatValues, t \in 1..MaxTotalSize :
          unit = [NoUnit EXCEPT !.formato = f, !.total_size = t,
                                !.bytes_remaining = t]

\* lines 165-170 applied to unit.formato
Resolve ==
    /\ unit.extensao_padrao = ""
    /\ unit' = [unit EXCEPT
                   !.extensao_padrao = extensao_padrao(unit.formato),
                   !.tipos_arquivo = tipos_arquivo(unit.formato)]
    /\ UNCHANGED app

\* the engine has received a chunk of n bytes and calls _on_pytube_progress
\* with the bytes that remain
Chunk(n) ==
    /\ n <= unit.bytes_remaining
    /\ unit' = [unit EXCEPT
                   !.bytes_remaining = @ - n,
                   !.progress = _on_pytube_progress(unit.total_size,
                                    unit.bytes_remaining - n)]
    /\ UNCHANGED app

NextFunctions ==
    \/ Resolve
    \/ \E n \in 1..MaxTotalSize : Chunk(n)

SpecFunctions == InitFunctions /\ [][NextFunctions]_vars

\* ------------------------------------------------------ specifications
Presentation ==
    \/ \E f \in Formatos : SelectFormato(f)
    \/ ClickDisabled
    \/ IniciarDownload_URLVazia
    \/ IniciarDownload_Cancelado
    \/ \E threadStarts \in BOOLEAN : IniciarDownload_Dispatch(threadStarts)
    \/ Deliver

Pipeline(j) ==
    \/ L109(j) \/ L110(j) \/ L112(j) \/ L115(j) \/ L118(j) \/ L131(j)
    \/ L132(j) \/ L134(j) \/ L136(j) \/ L137(j) \/ L140(j) \/ L141(j)
    \/ L160(j) \/ L166(j) \/ L167(j) \/ L168(j) \/ L172(j) \/ L173(j)
    \/ L177(j) \/ L178(j)
    \/ L91(j) \/ L92(j) \/ L93(j) \/ L94(j) \/ L95(j)

\* the application as wired
Next ==
    \/ Presentation
    \/ \E j \in Jobs : Thread_run(j, ThreadArgs(job[j]))

Spec == Init /\ [][Next]_vars

\* the pipeline, entered with the arguments of its signature
NextDownload ==
    \/ Presentation
    \/ \E j \in Jobs : Thread_run(j, SignatureArgs(job[j]))
    \/ \E j \in Jobs : Pipeline(j)

SpecDownload == Init /\ [][NextDownload]_vars

TypeOK ==
    /\ var_formato \in Formatos
    /\ progress_bar \in 0..100
    /\ clicks \in 0..MaxClicks
    /\ ignored \in 0..clicks
    /\ njobs \in 0..clicks
\* ------------------------------------------------------------- claims
\* a worker exists from Thread.start() until the thread function has
\* returned or an exception has left it
Alive(j) == pc[j] # "none" /\ ~Ended(pc[j])

\* worker j is past its terminal notification (or the dispatch posted one)
TerminalPosted(j) ==
    pc[j] \in {"l91", "l92", "l93", "l94", "l95", "done",
               "FileNotFoundError", "nothread"}

\* the terminal callback of job j has not begun to be delivered
TerminalPending(j) ==
    \E i \in 1..Len(afterQueue) :
        /\ afterQueue[i].job = j
        /\ afterQueue[i].cb \in {"error", "complete"}
        /\ afterQueue[i].fn \in {"showerror", "_log_status"}

\* job j has been accepted and no terminal callback of it is delivered
Active(j) == pc[j] # "none" /\ (~TerminalPosted(j) \/ TerminalPending(j))

\* every worker has ended and the event loop has nothing left to run
Quiescent ==
    /\ \A j \in Jobs : ~Alive(j)
    /\ afterQueue = << >>

\* C1: in every reachable state at most one worker thread exists
C1_AtMostOneWorker == Cardinality({j \in Jobs : Alive(j)}) <= 1

\* C3: the controls are never left disabled: once every worker has ended
\* and every scheduled callback has run, the button is enabled again
C3_NeverStuckDisabled == Quiescent => ui.botao_baixar = "normal"

\* C9: once worker j has posted its terminal notification it posts no
\* further event of job j
C9_NothingAfterTerminal ==
    \A j \in Jobs : sent[j].terminal > 0 => sent[j].n = sent[j].terminal

\* C10: a worker ends only by returning from iniciar_download, having
\* invoked on_complete or on_error; no exception leaves the thread function
C10_SingleErrorChannel ==
    [][\A j \in Jobs :
          (Alive(j) /\ Ended(pc'[j])) =>
              /\ pc'[j] = "done"
              /\ sent[j].complete + sent[j].error >= 1]_vars
\* the step runs the scheduled callback ItemRun
Delivers ==
    /\ afterQueue # << >>
    /\ actor' = "main"
    /\ clicks' = clicks
    /\ var_formato' = var_formato
ItemRun == afterQueue[NextCallback(afterQueue)]

\* delivered[j] as of the end of the step
AfterStep(j) ==
    IF Delivers /\ ItemRun.job = j
      THEN Applied(delivered[j], ItemRun) ELSE delivered[j]

\* nothing is left of job j after the step
Leaves(j) ==
    InFlight(j, pc, afterQueue) /\ ~InFlight(j, pc', afterQueue')

NonEmpty(m) == m.text # "" \/ m.detail # ""

\* C2: a press of the button made while a job is accepted and none of its
\* terminal callbacks is delivered is rejected: it spawns no worker and
\* leaves Job State and presentation state as they are
C2_SecondStartRejected ==
    [][(clicks' # clicks /\ \E j \in Jobs : Active(j)) =>
          /\ ignored' = ignored + 1
          /\ UNCHANGED <<njobs, job, pc, ui, progress_bar, text_status,
                         dialogs, afterQueue, var_formato>>]_vars

\* a second press was rejected while job 1 was active
C2_Witness ==
    /\ clicks = 2 /\ njobs = 1 /\ ignored = 1
    /\ pc[1] # "nothread" /\ Active(1)

\* C4: for a job whose worker invoked on_error: the error dialog carries a
\* non-empty message, the progress reset is applied after the dialog and
\* the re-enabling, all three are applied before the job is over, and once
\* the controls are re-enabled the button accepts the next start
C4_ErrorThenRetry ==
    [][/\ (Delivers /\ ItemRun.fn = "showerror") => NonEmpty(ItemRun.arg)
       /\ (Delivers /\ ItemRun.fn = "progress_bar.config"
                    /\ ItemRun.cb = "error") =>
              /\ delivered[ItemRun.job].error >= 1
              /\ delivered[ItemRun.job].idle >= 1
       /\ \A j \in Jobs :
            /\ (sent[j].error >= 1 /\ Leaves(j)) =>
                  /\ AfterStep(j).error >= 1
                  /\ AfterStep(j).idle >= 1
                  /\ AfterStep(j).reset >= 1
            /\ (sent'[j].error >= 1 /\ delivered'[j].idle >= 1
                                    /\ njobs' = j) =>
                  ui'.botao_baixar = "normal"]_vars

\* after the error of job 1 was shown and its progress reset applied, a
\* second start has been accepted
C4_Witness ==
    /\ sent[1].error >= 1
    /\ delivered[1].error >= 1 /\ delivered[1].reset >= 1
    /\ njobs = 2 /\ pc[2] = "start"

\* C5: for a job whose worker invoked on_complete: when the completion
\* message is applied progress 100 of the job has been applied, no error
\* was notified, and the message names the destination given to the
\* dispatch; message and re-enabling are applied before the job is over,
\* and once re-enabled the controls are in the enabled state
C5_CompleteThenIdle ==
    [][/\ (Delivers /\ ItemRun.fn = "_log_status"
                    /\ ItemRun.cb = "complete") =>
              /\ delivered[ItemRun.job].progress = 100
              /\ delivered[ItemRun.job].error = 0
              /\ sent[ItemRun.job].error = 0
              /\ ItemRun.arg.detail = job[ItemRun.job].caminho_final
       /\ \A j \in Jobs :
            /\ (sent[j].complete >= 1 /\ Leaves(j)) =>
                  /\ AfterStep(j).complete = 1
                  /\ AfterStep(j).idle = 1
                  /\ AfterStep(j).error = 0
            /\ (sent'[j].complete >= 1 /\ delivered'[j].idle >= 1
                                       /\ njobs' = j) =>
                  ui'.botao_baixar = "normal"]_vars

\* the completion of a job has been delivered and the controls re-enabled
C5_Witness ==
    \E j \in Jobs :
        /\ sent[j].complete = 1
        /\ delivered[j].progress = 100
        /\ delivered[j].complete = 1 /\ delivered[j].idle = 1
        /\ text_status[Len(text_status)].detail = job[j].caminho_final
        /\ ui.botao_baixar = "normal"

\* C6: the progress values applied for one job never decrease and lie in
\* 0..100
C6_ProgressMonotone ==
    [][\A j \in Jobs :
          InFlight(j, pc', afterQueue') =>
              /\ delivered'[j].progress >= delivered[j].progress
              /\ delivered'[j].progress <= 100]_vars

\* C7: a step of a worker thread leaves the progress bar, the status log,
\* the controls and the dialogs as they are
C7_WorkerNeverTouchesWidgets ==
    [][actor' = "worker" =>
          UNCHANGED <<progress_bar, text_status, ui, dialogs>>]_vars

\* a worker has just invoked a callback, which is scheduled and not run
C7_Witness ==
    /\ actor = "worker"
    /\ afterQueue # << >>
    /\ \E j \in Jobs :
          /\ sent[j].n >= 1
          /\ afterQueue[Len(afterQueue)].job = j
          /\ afterQueue[Len(afterQueue)].n = sent[j].n
          /\ afterQueue[Len(afterQueue)].cb = "status"

\* C8: the effects of the callbacks one worker invokes are applied in the
\* order of the invocations
C8_EffectsInOrder ==
    [][\A j \in Jobs :
          InFlight(j, pc', afterQueue') =>
              delivered'[j].n >= delivered[j].n]_vars

\* C11: a call of _iniciar_download that reads an empty URL spawns no
\* worker, schedules no callback (status, progress, error, completion) and
\* leaves the status log, the progress bar and the controls as they are,
\* the button enabled
C11_EmptyURLRejected ==
    [][(press'.made /\ press'.url = "") =>
          /\ UNCHANGED <<njobs, job, pc, afterQueue, sent, delivered,
                         text_status, progress_bar, ui>>
          /\ ui'.botao_baixar = "normal"]_vars

\* the button was pressed with an empty URL and the warning is shown
C11_Witness ==
    /\ press.made /\ press.url = ""
    /\ dialogs # << >>
    /\ dialogs[Len(dialogs)].kind = "showwarning"
    /\ njobs = 0 /\ afterQueue = << >>

\* C12: every value _on_pytube_progress reports for a stream of T > 0
\* bytes of which r remain is floor(90 * (T - r) / T), and lies in 0..90
C12_FetchProgressFloor ==
    unit.progress # -1 =>
        /\ unit.progress =
               (90 * (unit.total_size - unit.bytes_remaining))
                   \div unit.total_size
        /\ unit.progress \in 0..90

\* the step is worker j invoking update_progress(valor)
PostsProgress(j, valor) ==
    /\ Len(afterQueue') = Len(afterQueue) + 1
    /\ LET it == afterQueue'[Len(afterQueue')]
       IN  /\ it.job = j /\ it.cb = "progress"
           /\ it.fn = "progress_bar.config" /\ it.arg.num = valor

\* C13 as stated: the post-processing phase (lines 139-164) reports progress
\* exactly 95, and the finish of a successful job reports exactly 100
C13_PostProcessing95 ==
    [][\A j \in Jobs :
          /\ (pc[j] = "l141" /\ pc'[j] # "l141") => PostsProgress(j, 95)
          /\ (pc[j] = "l166" /\ pc'[j] # "l166") => PostsProgress(j, 100)]_vars

\* C13 amended: the post-processing phase reports progress exactly 90 and
\* the finish of a successful job reports exactly 100; the value applied
\* just before the 100 of a job is the 90 of its post-processing phase
C13_PostProcessing90 ==
    [][/\ \A j \in Jobs :
            /\ (pc[j] = "l141" /\ pc'[j] # "l141") => PostsProgress(j, 90)
            /\ (pc[j] = "l166" /\ pc'[j] # "l166") => PostsProgress(j, 100)
       /\ (Delivers /\ ItemRun.cb = "progress" /\ ItemRun.arg.num = 100) =>
              delivered[ItemRun.job].progress = 90]_vars

\* the 100 of a job has been applied while its worker has still to invoke
\* on_complete
C13_Witness ==
    \E j \in Jobs :
        /\ pc[j] \in {"l167", "l168"}
        /\ delivered[j].progress = 100
        /\ progress_bar = 100

\* C14: the worker of a job runs the pipeline of the job's format: the
\* worker of an mp3 job fetches an audio-only stream, so it is never at the
\* download of the video stream and temp_video.mp4 is never written by it
C14_PipelineByFormat ==
    \A j \in Jobs :
        (Alive(j) /\ job[j].formato = "mp3") =>
            /\ pc[j] \notin {"l131", "l132"}
            /\ files.video # j

Started == {j \in Jobs : pc[j] = "none" /\ pc'[j] = "start"}

\* the progress reset of the dispatch of job j is scheduled in q ahead of
\* every other callback of job j
ResetFirst(j, q) ==
    \E i \in 1..Len(q) :
        /\ q[i].job = j /\ q[i].cb = "start"
        /\ q[i].fn = "progress_bar.config" /\ q[i].arg.num = 0
        /\ \A k \in 1..(i - 1) : q[k].job # j

\* the progress reset of the dispatch of job j is still to be applied
ResetPending(j) ==
    \E i \in 1..Len(afterQueue) :
        afterQueue[i].job = j /\ afterQueue[i].cb = "start"

TerminalsQueued(j) ==
    Cardinality({i \in 1..Len(afterQueue) :
                    /\ afterQueue[i].job = j
                    /\ \/ afterQueue[i].fn = "showerror"
                       \/ /\ afterQueue[i].fn = "_log_status"
                          /\ afterQueue[i].cb = "complete"})

\* C17: the worker of a job invokes on_complete and on_error at most once
\* between them, and at most one terminal notification of a job is
\* scheduled or applied
C17_AtMostOneTerminal ==
    \A j \in Jobs :
        /\ sent[j].complete + sent[j].error <= 1
        /\ TerminalsQueued(j) + delivered[j].complete + delivered[j].error
              <= 1

\* a worker has returned after its error notification was applied, one
\* later event of it still scheduled
C17_Witness ==
    \E j \in Jobs :
        /\ pc[j] = "done"
        /\ sent[j].error = 1 /\ sent[j].complete = 0
        /\ delivered[j].error = 1
        /\ TerminalsQueued(j) = 0

\* worker j has begun to download its streams and FFmpeg has not yet
\* merged them
BeforeMerge(j) ==
    pc[j] \in {"l132", "l134", "l136", "l137", "l140", "l141", "l160"}

\* C18: a temporary file that the worker of a job has downloaded and not
\* yet merged is removed by no step but one of that worker
C18_OwnTemporaryFiles ==
    [][\A f \in {"video", "audio"} :
          (files[f] # 0 /\ files'[f] = 0 /\ BeforeMerge(files[f])) =>
              pc'[files[f]] # pc[files[f]]]_vars

\* C19: once a later job has been accepted and its worker has begun to
\* report, no callback of an earlier job changes the progress bar or the
\* status log
C19_NoLeakAcrossJobs ==
    [][(/\ Delivers
        /\ ItemRun.fn \in {"_log_status", "progress_bar.config"}
        /\ ItemRun.job < njobs) =>
           sent[njobs].n = 0]_vars

\* C20: a call of _iniciar_download that reads a non-empty URL and whose
\* save dialog is cancelled spawns no worker, schedules no callback, shows
\* no message box and leaves the controls (enabled) and the progress bar
\* as they are; it adds one line to the status log
C20_CancelOnlyLogs ==
    [][(press'.made /\ press'.url # "" /\ press'.name = "") =>
          /\ UNCHANGED <<njobs, job, pc, ui, progress_bar, dialogs,
                         afterQueue, sent, delivered>>
          /\ ui'.botao_baixar = "normal"
          /\ text_status' =
                 Kept(Append(text_status,
                             Msg("Download cancelado pelo usuario.", "")))
       ]_vars

\* the save dialog of the first press was cancelled
C20_Witness ==
    /\ press.made /\ press.url # "" /\ press.name = ""
    /\ text_status[Len(text_status)].text = "Download cancelado pelo usuario."
    /\ njobs = 0 /\ afterQueue = << >> /\ dialogs = << >>
====
